---- MODULE Spec2Model ----
(***************************************************************************)
(* A model of the composite WebDAV handler of tailfs (package              *)
(* compositedav): the StatCache (stat_cache.go) and the Handler            *)
(* (compositedav.go).  Goroutines are the tasks 1..NumTasks; every task    *)
(* is either idle or inside one call, at the position pc[t].               *)
(*                                                                         *)
(* The ttlcache/v3 library that StatCache wraps is modelled by what its    *)
(* calls do: Get returns an unexpired item and (by default) touches it,    *)
(* Set stores the item with expiresAt = now + TTL, DeleteAll removes every *)
(* item, Start runs the eviction loop until it receives on the unbuffered  *)
(* stop channel, Stop sends on that channel.                               *)
(***************************************************************************)
EXTENDS Integers, Sequences, FiniteSets, TLC

\* ------------------------------------------------------------- bounds

NumTasks == 2
MaxTime == 3
TTL == 2

Tasks == 1 .. NumTasks
Names == {"file"}
Depths == {0, 1}
Values == {"v1", "v2"}
Nil == "nil"

\* ------------------------------------------------------------- state

VARIABLES
    pc,            \* pc[t]: the position of task t
    op,            \* op[t]: the call task t is inside ("" when idle)
    now,           \* the wall clock
    mu,            \* StatCache.mu: 0 when free, else the task holding it
    caches,        \* StatCache.caches: depth -> sub-cache
    stopRemaining, \* stopRemaining[t]: sub-caches stop()'s range loop has yet to visit
    result,        \* the value the last get() call returned
    written,       \* written[n][d]: the value and time of the last set since the last invalidate
    stopReturned,  \* whether some stop() call has returned
    statCache,     \* whether Handler.StatCache is set (non-nil)
    rw,            \* Handler.childrenMu: the writer (0: none) and the readers holding it
    hChildren,     \* Handler.children: the slice header, its array and its length
    staticRoot,    \* Handler.staticRoot
    rp,            \* the children whose reverse proxy (Child.rp) is built
    installed,     \* the children slice of the last SetChildren (or Close: none) that finished its swap
    loc,           \* loc[t]: the arguments, locals and outcome of task t's call
    rpBuilds,      \* rpBuilds[c]: how many reverse proxies were constructed for child c
    backend,       \* the state of the children's folders: the number of mutations applied
    web            \* the web client's useAuth hook: its state, its fetches, the last canEdit

handlerVars == <<statCache, rw, hChildren, staticRoot, rp, installed, loc>>
cacheVars == <<now, mu, caches, stopRemaining, result, written, stopReturned>>
otherVars == <<rpBuilds, backend, web>>
vars == <<pc, op, now, mu, caches, stopRemaining, result, written, stopReturned,
          statCache, rw, hChildren, staticRoot, rp, installed, loc,
          rpBuilds, backend, web>>

\* ------------------------------------------------------------- StatCache

NoItem == [present |-> FALSE, value |-> Nil, expiresAt |-> 0]
NoCache == [exists |-> FALSE, sweeper |-> "none", items |-> [n \in Names |-> NoItem]]
NotWritten == [set |-> FALSE, value |-> Nil, at |-> 0]

\* ttlcache Item.isExpiredUnsafe: expiresAt.Before(time.Now())
isExpired(item, t) == item.expiresAt < t

\* one sub-cache shared by every depth
SharedKey(depth) == 0
\* c.caches[depth]: the sub-cache a depth is stored in
cacheKey(depth) == depth

\* ttlcache.New + go cache.Start() + c.caches[depth] = cache
newCache == [exists |-> TRUE, sweeper |-> "running", items |-> [n \in Names |-> NoItem]]

\* ttlcache Cache.Get's lookup: the item, unless missing or expired
lookup(cache, name, t) ==
    IF cache.exists /\ cache.items[name].present /\ ~isExpired(cache.items[name], t)
    THEN cache.items[name].value
    ELSE Nil

\* StatCache.get's result
getValue(cs, name, depth, t) == lookup(cs[cacheKey(depth)], name, t)

\* ttlcache Cache.Get's effect on a hit: item.touch() moves expiresAt to now + ttl
touchOnHit(cache, name, t) ==
    IF lookup(cache, name, t) # Nil
    THEN [cache EXCEPT !.items[name].expiresAt = t + TTL]
    ELSE cache

\* StatCache.get's effect on the caches
getEffect(cs, name, depth, t) ==
    [cs EXCEPT ![cacheKey(depth)] = touchOnHit(@, name, t)]

\* a set that keeps the value of an entry already present
SetIfAbsent(cs, name, depth, value, t) ==
    LET k == cacheKey(depth)
        cache == IF cs[k].exists THEN cs[k] ELSE newCache
    IN [cs EXCEPT ![k] =
            [cache EXCEPT !.items[name] =
                IF cache.items[name].present
                THEN [@ EXCEPT !.expiresAt = t + TTL]
                ELSE [present |-> TRUE, value |-> value, expiresAt |-> t + TTL]]]
\* StatCache.set's effect on the caches
setEffect(cs, name, depth, value, t) ==
    LET k == cacheKey(depth)
        cache == IF cs[k].exists THEN cs[k] ELSE newCache
    IN [cs EXCEPT ![k] =
            [cache EXCEPT !.items[name] =
                [present |-> TRUE, value |-> value, expiresAt |-> t + TTL]]]

\* an invalidate that throws the sub-cache away with its entries
DropSubCache(cache) == NoCache
\* ttlcache Cache.DeleteAll
deleteAll(cache) == [cache EXCEPT !.items = [n \in Names |-> NoItem]]

\* DeleteAll on the sub-cache of depth 0 only
InvalidateFirstOnly(cs) ==
    [d \in Depths |-> IF cs[d].exists /\ d = 0 THEN deleteAll(cs[d]) ELSE cs[d]]
\* StatCache.invalidate's effect on the caches
invalidateEffect(cs) ==
    [d \in Depths |-> IF cs[d].exists THEN deleteAll(cs[d]) ELSE cs[d]]

\* ttlcache Cache.DeleteExpired, run by the eviction loop of Start
deleteExpired(cache, t) ==
    [cache EXCEPT !.items =
        [n \in Names |-> IF @[n].present /\ isExpired(@[n], t) THEN NoItem ELSE @[n]]]

\* ------------------------------------------------------------- Handler

ChildNames == {"remote1", "remote2"}
RootNames == {"", "domain"}
PathSegs == {"domain", "remote1"}
Methods == {"GET", "PUT", "DELETE", "PROPFIND"}
MaxPathLen == 2

\* the names in lexicographic order
NameOrder == <<"domain", "remote1", "remote2">>
Rank(n) == CHOOSE i \in 1 .. Len(NameOrder) : NameOrder[i] = n

\* strings.Compare
Compare(a, b) == IF Rank(a) < Rank(b) THEN -1 ELSE IF Rank(a) > Rank(b) THEN 1 ELSE 0

Range(s) == {s[i] : i \in 1 .. Len(s)}

\* the children slices a caller may pass: no child twice, in any order
ChildSeqs ==
    {s \in UNION {[1 .. n -> ChildNames] : n \in 0 .. Cardinality(ChildNames)} :
        Cardinality(Range(s)) = Len(s)}

\* the path components of a request (shared.CleanAndSplit's result)
Paths == UNION {[1 .. n -> PathSegs] : n \in 0 .. MaxPathLen}

RECURSIVE InsertSorted(_, _)
InsertSorted(s, x) ==
    IF s = <<>> THEN <<x>>
    ELSE IF Compare(x, s[1]) < 0 THEN <<x>> \o s
    ELSE <<s[1]>> \o InsertSorted(Tail(s), x)

RECURSIVE InsertionSort(_)
InsertionSort(s) ==
    IF s = <<>> THEN <<>>
    ELSE InsertSorted(InsertionSort(SubSeq(s, 1, Len(s) - 1)), s[Len(s)])

\* the slice left in the order the caller gave
KeepOrder(s) == s
\* slices.SortFunc(children, strings.Compare on Name)
sortChildren(s) == InsertionSort(s)

IsSorted(s) == \A i \in 1 .. Len(s) - 1 : Compare(s[i], s[i + 1]) <= 0

\* the loop of slices.BinarySearchFunc, on 0-based indices
RECURSIVE bsearch(_, _, _, _)
bsearch(x, target, i, j) ==
    IF i < j
    THEN LET h == (i + j) \div 2
         IN IF Compare(x[h + 1], target) < 0
            THEN bsearch(x, target, h + 1, j)
            ELSE bsearch(x, target, i, h)
    ELSE i

\* slices.BinarySearchFunc(h.children, name, ...)
BinarySearch(x, target) ==
    LET i == bsearch(x, target, 0, Len(x))
    IN [i |-> i, found |-> i < Len(x) /\ Compare(x[i + 1], target) = 0]

\* findChildLocked returning the first child whatever the index found
FirstChild(h, l) == IF l.found THEN h.arr[1] ELSE Nil

\* delegate without its "child == nil" check
NoNilCheck(child, proxies) == IF child \notin proxies THEN "panic" ELSE "forwarded"

\* a slice header: the nil slice, a header whose length exceeds its array
\* (a torn read of a racing write), the elements a header denotes
NilSlice == [arr |-> <<>>, len |-> 0]
torn(h) == h.len > Len(h.arr)
view(h) == SubSeq(h.arr, 1, h.len)

\* sync.RWMutex: RLock succeeds while no writer holds it, Lock while nobody does
canRLock(m) == m.writer = 0
canLock(m) == m.writer = 0 /\ m.readers = {}

\* h.childrenMu.Lock() in SetChildren
canLockForSet(m) == canLock(m)

\* only a PUT invalidates
OnlyPut(method) == method = "PUT"
\* ServeHTTP: h.StatCache != nil && r.Method != "GET" (PROPFIND has returned before)
needsInvalidate(method) == method # "GET"

\* findChildLocked's result
foundChild(h, l) == IF l.found THEN h.arr[l.idx + 1] ELSE Nil

\* delegate, after GetChild: 404 when there is no such child, else the URL is
\* rewritten and child.rp.ServeHTTP forwards the request
delegateOutcome(child, proxies) ==
    IF child = Nil THEN "notfound"
    ELSE IF child \notin proxies THEN "panic"
    ELSE "forwarded"

\* Child.BaseURL: each child has its own host and a base path
baseURL(child) == [host |-> child, path |-> <<"share">>]

\* r.URL before delegate rewrites it: the request's own path, no host
requestURL(path) == [host |-> "", path |-> path]

\* a rewrite that drops the path of the child's base address
DropBasePath(child, rest) == [host |-> baseURL(child).host, path |-> rest]
\* delegate: u := url.Parse(child.BaseURL); u.Path = path.Join(u.Path,
\* shared.Join(pathComponents[1:]...)); r.URL = u
rewriteURL(child, rest) == [host |-> baseURL(child).host, path |-> baseURL(child).path \o rest]

\* a depth of 1 whatever the static root
DepthOne(root) == 1
\* maxPathLength
maxPathLength(root) == IF root # "" THEN 2 ELSE 1

\* ---- dirfs.FS, the file system of the virtual folders

FsSegs == {"domain", "remote1"}
MaxFsPathLen == 2

\* the paths of a call, cleaned and split into components ("" and "/" are <<>>)
FsPaths == UNION {[1 .. n -> FsSegs] : n \in 0 .. MaxFsPathLen}

\* the destinations of a rename
FsDests == {<<>>, <<"domain", "remote2">>}

\* shared.ReadOnlyDirInfo: the fs.FileInfo of a virtual folder
dirInfo(name, t) == [name |-> name, size |-> 0, isDir |-> TRUE, modTime |-> t]
NoInfo == [name |-> Nil, size |-> 0, isDir |-> FALSE, modTime |-> 0]

\* handle: children = append(children, &child.Child) for each of h.children
dirfsChildren(h) == view(h)

\* handle: &dirfs.FS{Clock: h.Clock, Children: children, StaticRoot: h.staticRoot}
newFS(h, root) == [children |-> dirfsChildren(h), root |-> root]

\* the name of the virtual node a path denotes in an FS (Nil: none): the root,
\* the static root, a child below the static root
nodeName(fs, p) ==
    IF p = <<>> THEN ""
    ELSE IF fs.root # ""
    THEN IF p = <<fs.root>> THEN fs.root
         ELSE IF Len(p) = 2 /\ p[1] = fs.root /\ p[2] \in Range(fs.children) THEN p[2]
         ELSE Nil
    ELSE IF Len(p) = 1 /\ p[1] \in Range(fs.children) THEN p[1]
    ELSE Nil

\* a Stat that finds a folder at every path
StatAlways(fs, p, t) ==
    [err |-> "", info |-> dirInfo(IF p = <<>> THEN "" ELSE p[Len(p)], t)]
\* FS.Stat
dirfsStat(fs, p, t) ==
    IF nodeName(fs, p) # Nil
    THEN [err |-> "", info |-> dirInfo(nodeName(fs, p), t)]
    ELSE [err |-> "NotExist", info |-> NoInfo]

\* a listing that shows the children at the root even below a static root
ListChildrenAtRoot(fs, p, t) ==
    [i \in 1 .. Len(fs.children) |-> dirInfo(fs.children[i], t)]
\* FS.OpenFile + Readdir on the root or the static root
dirfsList(fs, p, t) ==
    IF p = <<>> /\ fs.root # ""
    THEN <<dirInfo(fs.root, t)>>
    ELSE [i \in 1 .. Len(fs.children) |-> dirInfo(fs.children[i], t)]

\* a Mkdir that refuses a folder that exists
MkdirExisting(fs, p) == IF nodeName(fs, p) # Nil THEN "Exist" ELSE "Permission"
\* FS.Mkdir
dirfsMkdir(fs, p) == IF nodeName(fs, p) # Nil THEN "" ELSE "Permission"

\* a RemoveAll that lets a child's folder go
RemoveBelowRoot(fs, p) == IF Len(p) = 2 THEN "" ELSE "Permission"
\* FS.RemoveAll
dirfsRemoveAll(fs, p) == "Permission"

\* FS.Rename
dirfsRename(fs, p, q) == "Permission"

NoLoc == [root |-> "", children |-> <<>>, old |-> NilSlice, prev |-> {}, closed |-> {},
          name |-> Nil, idx |-> 0, found |-> FALSE, child |-> Nil, method |-> "",
          path |-> <<>>, mpl |-> 0, inval |-> FALSE, outcome |-> "", rest |-> <<>>,
          url |-> requestURL(<<>>), proxy |-> Nil,
          err |-> "", info |-> NoInfo, entries |-> <<>>, dest |-> <<>>,
          depth |-> 0, listing |-> Nil]

\* a Child.init that builds a proxy at every call
InitEveryCall(n) == n + 1
\* Child.init: c.initOnce.Do builds c.rp, once
initChild(n) == IF n = 0 THEN 1 ELSE n

\* ---- the web client's auth hook (client/web/src/hooks/auth.ts)

\* PeerCapability, in part
Caps == {"*", "ssh"}
MaxLoads == 2

\* viewerIdentity: absent, or present with its capabilities
NoIdentity == [present |-> FALSE, capabilities |-> [c \in Caps |-> FALSE]]
Identities ==
    {NoIdentity} \cup {[present |-> TRUE, capabilities |-> cs] : cs \in [Caps -> BOOLEAN]}

\* AuthResponse
AuthResponses ==
    [authorized : BOOLEAN, viewerIdentity : Identities, needsSynoAuth : BOOLEAN]
NoResponse == [authorized |-> FALSE, viewerIdentity |-> NoIdentity, needsSynoAuth |-> FALSE]

\* a canEdit that does not look at auth.authorized
CanEditUnauthorized(cap, auth) ==
    IF ~auth.viewerIdentity.present THEN FALSE
    ELSE IF auth.viewerIdentity.capabilities["*"] = TRUE THEN TRUE
    ELSE auth.viewerIdentity.capabilities[cap] = TRUE
\* canEdit(cap, auth)
canEdit(cap, auth) ==
    IF ~auth.authorized \/ ~auth.viewerIdentity.present THEN FALSE
    ELSE IF auth.viewerIdentity.capabilities["*"] = TRUE THEN TRUE
    ELSE auth.viewerIdentity.capabilities[cap] = TRUE

\* useAuth's state before its effects run: useState() for data, true for
\* loading, false for ranSynoAuth; no fetch under way
WebInit == [hasData |-> FALSE, data |-> NoResponse, loading |-> TRUE,
            ranSynoAuth |-> FALSE, synoToken |-> FALSE,
            authPending |-> 0, synoPending |-> 0, effectPending |-> FALSE,
            loads |-> 0, cap |-> Nil, can |-> FALSE]

Init ==
    /\ pc = [t \in Tasks |-> "idle"]
    /\ op = [t \in Tasks |-> ""]
    /\ now = 0
    /\ mu = 0
    /\ caches = [d \in Depths |-> NoCache]
    /\ stopRemaining = [t \in Tasks |-> {}]
    /\ result = Nil
    /\ written = [n \in Names |-> [d \in Depths |-> NotWritten]]
    /\ stopReturned = FALSE
    /\ statCache \in BOOLEAN
    /\ rw = [writer |-> 0, readers |-> {}]
    /\ hChildren = NilSlice
    /\ staticRoot = ""
    /\ rp = {}
    /\ installed = <<>>
    /\ loc = [t \in Tasks |-> NoLoc]
    /\ rpBuilds = [c \in ChildNames |-> 0]
    /\ backend = 0
    /\ web = WebInit

\* c.get(name, depth): lock, look up, unlock
Get(t, name, depth) ==
    /\ pc[t] = "idle"
    /\ mu = 0
    /\ caches' = getEffect(caches, name, depth, now)
    /\ result' = getValue(caches, name, depth, now)
    /\ UNCHANGED <<pc, op, now, mu, stopRemaining, written, stopReturned>>
    /\ UNCHANGED handlerVars
    /\ UNCHANGED otherVars

\* c.set(name, depth, value): lock, create the sub-cache if needed, store, unlock
Set(t, name, depth, value) ==
    /\ pc[t] = "idle"
    /\ mu = 0
    /\ caches' = setEffect(caches, name, depth, value, now)
    /\ written' = [written EXCEPT ![name][depth] =
                        [set |-> TRUE, value |-> value, at |-> now]]
    /\ UNCHANGED <<pc, op, now, mu, stopRemaining, result, stopReturned>>
    /\ UNCHANGED handlerVars
    /\ UNCHANGED otherVars

\* c.invalidate(): lock, DeleteAll on every sub-cache, unlock
Invalidate(t) ==
    /\ pc[t] = "idle"
    /\ mu = 0
    /\ caches' = invalidateEffect(caches)
    /\ written' = [n \in Names |-> [d \in Depths |-> NotWritten]]
    /\ UNCHANGED <<pc, op, now, mu, stopRemaining, result, stopReturned>>
    /\ UNCHANGED handlerVars
    /\ UNCHANGED otherVars

\* a direct call of c.stop()
CallStop(t) ==
    /\ pc[t] = "idle"
    /\ pc' = [pc EXCEPT ![t] = "stop_call"]
    /\ op' = [op EXCEPT ![t] = "stop"]
    /\ UNCHANGED cacheVars
    /\ UNCHANGED handlerVars
    /\ UNCHANGED otherVars

\* c.stop(): c.mu.Lock(); the range loop starts
StopLock(t) ==
    /\ pc[t] = "stop_call"
    /\ mu = 0
    /\ mu' = t
    /\ stopRemaining' = [stopRemaining EXCEPT ![t] = {d \in Depths : caches[d].exists}]
    /\ pc' = [pc EXCEPT ![t] = "stop_loop"]
    /\ UNCHANGED <<op, now, caches, result, written, stopReturned>>
    /\ UNCHANGED handlerVars
    /\ UNCHANGED otherVars

\* one iteration of the loop: cache.Stop() sends on the unbuffered stopCh,
\* which only a running Start loop receives
StopOne(t) ==
    /\ pc[t] = "stop_loop"
    /\ \E d \in stopRemaining[t] :
        IF caches[d].sweeper = "running"
        THEN /\ caches' = [caches EXCEPT ![d].sweeper = "exited"]
             /\ stopRemaining' = [stopRemaining EXCEPT ![t] = @ \ {d}]
             /\ pc' = pc
        ELSE /\ pc' = [pc EXCEPT ![t] = "stop_blocked"]
             /\ UNCHANGED <<caches, stopRemaining>>
    /\ UNCHANGED <<op, now, mu, result, written, stopReturned>>
    /\ UNCHANGED handlerVars
    /\ UNCHANGED otherVars

\* the loop is over: the deferred c.mu.Unlock() runs and stop() returns
StopUnlock(t) ==
    /\ pc[t] = "stop_loop"
    /\ stopRemaining[t] = {}
    /\ mu' = 0
    /\ stopReturned' = TRUE
    /\ pc' = [pc EXCEPT ![t] = "ret"]
    /\ UNCHANGED <<op, now, caches, stopRemaining, result, written>>
    /\ UNCHANGED handlerVars
    /\ UNCHANGED otherVars

\* the call returns to its caller
Return(t) ==
    /\ pc[t] = "ret"
    /\ pc' = [pc EXCEPT ![t] = "idle"]
    /\ op' = [op EXCEPT ![t] = ""]
    /\ loc' = [loc EXCEPT ![t] = NoLoc]
    /\ UNCHANGED cacheVars
    /\ UNCHANGED <<statCache, rw, hChildren, staticRoot, rp, installed>>
    /\ UNCHANGED otherVars

\* the eviction loop of a running sub-cache fires its timer
Sweep(d) ==
    /\ caches[d].sweeper = "running"
    /\ caches' = [caches EXCEPT ![d] = deleteExpired(@, now)]
    /\ caches' # caches
    /\ UNCHANGED <<pc, op, now, mu, stopRemaining, result, written, stopReturned>>
    /\ UNCHANGED handlerVars
    /\ UNCHANGED otherVars

\* time passes
Tick ==
    /\ now < MaxTime
    /\ now' = now + 1
    /\ UNCHANGED <<pc, op, mu, caches, stopRemaining, result, written, stopReturned>>
    /\ UNCHANGED handlerVars
    /\ UNCHANGED otherVars

\* ---- Handler.SetChildren(staticRoot, children...)

\* the call: child.init() on every child, then slices.SortFunc on the caller's slice
SetChildren(t, root, cs) ==
    /\ pc[t] = "idle"
    /\ rp' = rp \cup Range(cs)
    /\ rpBuilds' = [c \in ChildNames |->
                        IF c \in Range(cs) THEN initChild(rpBuilds[c]) ELSE rpBuilds[c]]
    /\ loc' = [loc EXCEPT ![t] = [NoLoc EXCEPT !.root = root, !.children = sortChildren(cs)]]
    /\ pc' = [pc EXCEPT ![t] = "sc_lock"]
    /\ op' = [op EXCEPT ![t] = "SetChildren"]
    /\ UNCHANGED cacheVars
    /\ UNCHANGED <<statCache, rw, hChildren, staticRoot, installed>>
    /\ UNCHANGED <<backend, web>>

\* h.childrenMu.Lock(); oldChildren := children; h.children = children (the
\* header's array word)
ScLock(t) ==
    /\ pc[t] = "sc_lock"
    /\ canLockForSet(rw)
    /\ rw' = [rw EXCEPT !.writer = t]
    /\ loc' = [loc EXCEPT ![t].prev = Range(view(hChildren)),
                          ![t].old = [arr |-> loc[t].children, len |-> Len(loc[t].children)]]
    /\ hChildren' = [hChildren EXCEPT !.arr = loc[t].children]
    /\ pc' = [pc EXCEPT ![t] = "sc_w_rest"]
    /\ UNCHANGED cacheVars
    /\ UNCHANGED <<op, statCache, staticRoot, rp, installed>>
    /\ UNCHANGED otherVars

\* h.children = children (the header's length word); h.staticRoot = staticRoot;
\* h.childrenMu.Unlock()
ScWriteRest(t) ==
    /\ pc[t] = "sc_w_rest"
    /\ hChildren' = [hChildren EXCEPT !.len = Len(loc[t].children)]
    /\ staticRoot' = loc[t].root
    /\ installed' = loc[t].children
    /\ rw' = [rw EXCEPT !.writer = 0]
    /\ pc' = [pc EXCEPT ![t] = "sc_close"]
    /\ UNCHANGED cacheVars
    /\ UNCHANGED <<op, statCache, rp, loc>>
    /\ UNCHANGED otherVars

\* for _, child := range oldChildren { child.CloseIdleConnections() }
ScClose(t) ==
    /\ pc[t] = "sc_close"
    /\ loc' = [loc EXCEPT ![t].closed = Range(view(loc[t].old))]
    /\ pc' = [pc EXCEPT ![t] = "ret"]
    /\ UNCHANGED cacheVars
    /\ UNCHANGED <<op, statCache, rw, hChildren, staticRoot, rp, installed>>
    /\ UNCHANGED otherVars

\* ---- Handler.GetChild(name), also called by delegate

GetChild(t, name) ==
    /\ pc[t] = "idle"
    /\ loc' = [loc EXCEPT ![t] = [NoLoc EXCEPT !.name = name]]
    /\ pc' = [pc EXCEPT ![t] = "gc_rlock"]
    /\ op' = [op EXCEPT ![t] = "GetChild"]
    /\ UNCHANGED cacheVars
    /\ UNCHANGED <<statCache, rw, hChildren, staticRoot, rp, installed>>
    /\ UNCHANGED otherVars

\* h.childrenMu.RLock(); findChildLocked: slices.BinarySearchFunc(h.children,
\* name, ...); a header whose length exceeds its array makes the search read
\* past the array
GcSearch(t) ==
    /\ pc[t] = "gc_rlock"
    /\ canRLock(rw)
    /\ IF torn(hChildren)
       THEN /\ loc' = [loc EXCEPT ![t].outcome = "panic"]
            /\ rw' = rw
            /\ pc' = [pc EXCEPT ![t] = "ret"]
       ELSE /\ loc' = [loc EXCEPT ![t].idx = BinarySearch(view(hChildren), loc[t].name).i,
                                  ![t].found = BinarySearch(view(hChildren), loc[t].name).found]
            /\ rw' = [rw EXCEPT !.readers = @ \cup {t}]
            /\ pc' = [pc EXCEPT ![t] = "gc_index"]
    /\ UNCHANGED cacheVars
    /\ UNCHANGED <<op, statCache, hChildren, staticRoot, rp, installed>>
    /\ UNCHANGED otherVars

\* findChildLocked: if found { child = h.children[i] }; the deferred RUnlock;
\* in delegate, the request is then answered 404 or forwarded
GcIndex(t) ==
    /\ pc[t] = "gc_index"
    /\ rw' = [rw EXCEPT !.readers = @ \ {t}]
    /\ IF loc[t].found /\ (torn(hChildren) \/ loc[t].idx >= hChildren.len)
       THEN /\ loc' = [loc EXCEPT ![t].idx = 0, ![t].found = FALSE, ![t].outcome = "panic"]
            /\ pc' = [pc EXCEPT ![t] = "ret"]
       ELSE /\ loc' = [loc EXCEPT
                        ![t].idx = 0, ![t].found = FALSE,
                        ![t].child = foundChild(hChildren, loc[t]),
                        ![t].outcome = IF op[t] = "GetChild" THEN ""
                                       ELSE delegateOutcome(foundChild(hChildren, loc[t]), rp),
                        ![t].url = IF op[t] # "GetChild"
                                      /\ delegateOutcome(foundChild(hChildren, loc[t]), rp) = "forwarded"
                                   THEN rewriteURL(foundChild(hChildren, loc[t]), loc[t].rest)
                                   ELSE @,
                        ![t].proxy = IF op[t] # "GetChild"
                                        /\ delegateOutcome(foundChild(hChildren, loc[t]), rp) = "forwarded"
                                     THEN foundChild(hChildren, loc[t])
                                     ELSE Nil]
            /\ pc' = [pc EXCEPT ![t] = "ret"]
    /\ UNCHANGED cacheVars
    /\ UNCHANGED <<op, statCache, hChildren, staticRoot, rp, installed>>
    /\ UNCHANGED otherVars

\* ---- Handler.ServeHTTP(w, r)

\* the call: PROPFIND goes to handlePROPFIND; any other method but GET
\* invalidates the StatCache, if there is one
ServeHTTP(t, method, path) ==
    /\ pc[t] = "idle"
    /\ loc' = [loc EXCEPT ![t] =
                [NoLoc EXCEPT !.method = method, !.path = path, !.url = requestURL(path),
                              !.outcome = IF method = "PROPFIND" THEN "propfind" ELSE ""]]
    /\ pc' = [pc EXCEPT ![t] =
                IF method = "PROPFIND" THEN "ret"
                ELSE IF statCache /\ needsInvalidate(method) THEN "sh_inval"
                ELSE "mpl_rlock"]
    /\ op' = [op EXCEPT ![t] = "ServeHTTP"]
    /\ UNCHANGED cacheVars
    /\ UNCHANGED <<statCache, rw, hChildren, staticRoot, rp, installed>>
    /\ UNCHANGED otherVars

\* h.StatCache.invalidate()
ShInvalidate(t) ==
    /\ pc[t] = "sh_inval"
    /\ mu = 0
    /\ caches' = invalidateEffect(caches)
    /\ written' = [n \in Names |-> [d \in Depths |-> NotWritten]]
    /\ loc' = [loc EXCEPT ![t].inval = TRUE]
    /\ pc' = [pc EXCEPT ![t] = "mpl_rlock"]
    /\ UNCHANGED <<op, now, mu, stopRemaining, result, stopReturned>>
    /\ UNCHANGED <<statCache, rw, hChildren, staticRoot, rp, installed>>
    /\ UNCHANGED otherVars

\* maxPathLength: RLock, read h.staticRoot, RUnlock; then ServeHTTP delegates
\* pathComponents[mpl-1:] when the path has at least mpl components
MaxPathLength(t) ==
    /\ pc[t] = "mpl_rlock"
    /\ canRLock(rw)
    /\ LET mpl == maxPathLength(staticRoot)
           path == loc[t].path
       IN IF Len(path) >= mpl
          THEN /\ loc' = [loc EXCEPT ![t].mpl = mpl, ![t].name = path[mpl],
                                     ![t].rest = SubSeq(path, mpl + 1, Len(path))]
               /\ pc' = [pc EXCEPT ![t] = "gc_rlock"]
          ELSE /\ loc' = [loc EXCEPT ![t].mpl = mpl]
               /\ pc' = [pc EXCEPT ![t] = "h_rlock"]
    /\ UNCHANGED cacheVars
    /\ UNCHANGED <<op, statCache, rw, hChildren, staticRoot, rp, installed>>
    /\ UNCHANGED otherVars

\* handle: RLock, copy the children and the static root into a dirfs.FS,
\* RUnlock, and serve the request from it
Handle(t) ==
    /\ pc[t] = "h_rlock"
    /\ canRLock(rw)
    /\ loc' = [loc EXCEPT ![t].outcome = IF torn(hChildren) THEN "panic" ELSE "handled",
                          ![t].children = IF torn(hChildren) THEN <<>> ELSE view(hChildren),
                          ![t].root = staticRoot]
    /\ pc' = [pc EXCEPT ![t] = "ret"]
    /\ UNCHANGED cacheVars
    /\ UNCHANGED <<op, statCache, rw, hChildren, staticRoot, rp, installed>>
    /\ UNCHANGED otherVars

\* ---- Handler.Close()

Close(t) ==
    /\ pc[t] = "idle"
    /\ loc' = [loc EXCEPT ![t] = NoLoc]
    /\ pc' = [pc EXCEPT ![t] = "cl_rlock"]
    /\ op' = [op EXCEPT ![t] = "Close"]
    /\ UNCHANGED cacheVars
    /\ UNCHANGED <<statCache, rw, hChildren, staticRoot, rp, installed>>
    /\ UNCHANGED otherVars

\* h.childrenMu.RLock(); oldChildren := h.children
ClRLock(t) ==
    /\ pc[t] = "cl_rlock"
    /\ canRLock(rw)
    /\ rw' = [rw EXCEPT !.readers = @ \cup {t}]
    /\ loc' = [loc EXCEPT ![t].old = hChildren, ![t].prev = Range(hChildren.arr)]
    /\ pc' = [pc EXCEPT ![t] = "cl_write"]
    /\ UNCHANGED cacheVars
    /\ UNCHANGED <<op, statCache, hChildren, staticRoot, rp, installed>>
    /\ UNCHANGED otherVars

\* h.children = nil: the two words of the header are stored one after the
\* other, in an order the compiler chooses, with only the read lock held
ClWriteFirst(t) ==
    /\ pc[t] = "cl_write"
    /\ \E first \in {"arr", "len"} :
        /\ hChildren' = IF first = "arr" THEN [hChildren EXCEPT !.arr = <<>>]
                        ELSE [hChildren EXCEPT !.len = 0]
        /\ pc' = [pc EXCEPT ![t] = IF first = "arr" THEN "cl_write_len" ELSE "cl_write_arr"]
    /\ UNCHANGED cacheVars
    /\ UNCHANGED <<op, statCache, rw, staticRoot, rp, installed, loc>>
    /\ UNCHANGED otherVars

\* the second word of h.children = nil; h.childrenMu.RUnlock()
ClWriteSecond(t) ==
    /\ pc[t] \in {"cl_write_len", "cl_write_arr"}
    /\ hChildren' = IF pc[t] = "cl_write_arr" THEN [hChildren EXCEPT !.arr = <<>>]
                    ELSE [hChildren EXCEPT !.len = 0]
    /\ installed' = <<>>
    /\ rw' = [rw EXCEPT !.readers = @ \ {t}]
    /\ pc' = [pc EXCEPT ![t] = "cl_close"]
    /\ UNCHANGED cacheVars
    /\ UNCHANGED <<op, statCache, staticRoot, rp, loc>>
    /\ UNCHANGED otherVars

\* for _, child := range oldChildren { child.CloseIdleConnections() }; then
\* h.StatCache.stop() if there is a StatCache
ClClose(t) ==
    /\ pc[t] = "cl_close"
    /\ IF torn(loc[t].old)
       THEN /\ loc' = [loc EXCEPT ![t].outcome = "panic"]
            /\ pc' = [pc EXCEPT ![t] = "ret"]
       ELSE /\ loc' = [loc EXCEPT ![t].closed = Range(view(loc[t].old))]
            /\ pc' = [pc EXCEPT ![t] = IF statCache THEN "stop_call" ELSE "ret"]
    /\ UNCHANGED cacheVars
    /\ UNCHANGED <<op, statCache, rw, hChildren, staticRoot, rp, installed>>
    /\ UNCHANGED otherVars

\* ---- calls on the dirfs.FS that handle builds from the Handler's children

\* the locals of a call on the FS
fsCall(p) == [NoLoc EXCEPT !.path = p]

\* FS.Stat(ctx, name)
FsStat(t, p) ==
    /\ pc[t] = "idle"
    /\ canRLock(rw)
    /\ loc' = [loc EXCEPT ![t] =
                [fsCall(p) EXCEPT !.err = dirfsStat(newFS(hChildren, staticRoot), p, now).err,
                                  !.info = dirfsStat(newFS(hChildren, staticRoot), p, now).info]]
    /\ pc' = [pc EXCEPT ![t] = "ret"]
    /\ op' = [op EXCEPT ![t] = "Stat"]
    /\ UNCHANGED cacheVars
    /\ UNCHANGED <<statCache, rw, hChildren, staticRoot, rp, installed>>
    /\ UNCHANGED otherVars

\* FS.OpenFile(ctx, name, O_RDONLY, 0) and Readdir(0), on the root or the
\* static root
FsList(t, p) ==
    /\ pc[t] = "idle"
    /\ canRLock(rw)
    /\ p = <<>> \/ (staticRoot # "" /\ p = <<staticRoot>>)
    /\ loc' = [loc EXCEPT ![t] =
                [fsCall(p) EXCEPT !.entries = dirfsList(newFS(hChildren, staticRoot), p, now)]]
    /\ pc' = [pc EXCEPT ![t] = "ret"]
    /\ op' = [op EXCEPT ![t] = "List"]
    /\ UNCHANGED cacheVars
    /\ UNCHANGED <<statCache, rw, hChildren, staticRoot, rp, installed>>
    /\ UNCHANGED otherVars

\* FS.Mkdir(ctx, name, perm)
FsMkdir(t, p) ==
    /\ pc[t] = "idle"
    /\ canRLock(rw)
    /\ loc' = [loc EXCEPT ![t] =
                [fsCall(p) EXCEPT !.err = dirfsMkdir(newFS(hChildren, staticRoot), p)]]
    /\ pc' = [pc EXCEPT ![t] = "ret"]
    /\ op' = [op EXCEPT ![t] = "Mkdir"]
    /\ UNCHANGED cacheVars
    /\ UNCHANGED <<statCache, rw, hChildren, staticRoot, rp, installed>>
    /\ UNCHANGED otherVars

\* FS.RemoveAll(ctx, name)
FsRemoveAll(t, p) ==
    /\ pc[t] = "idle"
    /\ canRLock(rw)
    /\ loc' = [loc EXCEPT ![t] =
                [fsCall(p) EXCEPT !.err = dirfsRemoveAll(newFS(hChildren, staticRoot), p)]]
    /\ pc' = [pc EXCEPT ![t] = "ret"]
    /\ op' = [op EXCEPT ![t] = "RemoveAll"]
    /\ UNCHANGED cacheVars
    /\ UNCHANGED <<statCache, rw, hChildren, staticRoot, rp, installed>>
    /\ UNCHANGED otherVars

\* FS.Rename(ctx, oldName, newName)
FsRename(t, p, q) ==
    /\ pc[t] = "idle"
    /\ canRLock(rw)
    /\ loc' = [loc EXCEPT ![t] =
                [fsCall(p) EXCEPT !.dest = q,
                                  !.err = dirfsRename(newFS(hChildren, staticRoot), p, q)]]
    /\ pc' = [pc EXCEPT ![t] = "ret"]
    /\ op' = [op EXCEPT ![t] = "Rename"]
    /\ UNCHANGED cacheVars
    /\ UNCHANGED <<statCache, rw, hChildren, staticRoot, rp, installed>>
    /\ UNCHANGED otherVars

\* ---- PROPFIND requests (handlePROPFIND) beside mutating requests

MaxMutations == 1

\* the multistatus body a child answers a PROPFIND with, after b mutations
Listings == <<"v1", "v2", "v3">>
listingOf(b) == Listings[b + 1]

\* the requests that are inside ServeHTTP
inServeHTTP == {t \in Tasks : op[t] = "ServeHTTP"}

\* ServeHTTP: r.Method == "PROPFIND", h.handlePROPFIND(w, r) for a path below
\* a child, with the Depth header d
Propfind(t, d) ==
    /\ pc[t] = "idle"
    /\ statCache
    /\ loc' = [loc EXCEPT ![t] = [NoLoc EXCEPT !.method = "PROPFIND", !.depth = d]]
    /\ pc' = [pc EXCEPT ![t] = "pf_get"]
    /\ op' = [op EXCEPT ![t] = "PROPFIND"]
    /\ UNCHANGED cacheVars
    /\ UNCHANGED <<statCache, rw, hChildren, staticRoot, rp, installed>>
    /\ UNCHANGED otherVars

\* handlePROPFIND: h.StatCache.get(path, depth); a hit is the response
PfGet(t) ==
    /\ pc[t] = "pf_get"
    /\ mu = 0
    /\ caches' = getEffect(caches, "file", loc[t].depth, now)
    /\ result' = getValue(caches, "file", loc[t].depth, now)
    /\ IF getValue(caches, "file", loc[t].depth, now) # Nil
       THEN /\ loc' = [loc EXCEPT ![t].listing = getValue(caches, "file", loc[t].depth, now),
                                  ![t].outcome = "cached"]
            /\ pc' = [pc EXCEPT ![t] = "ret"]
       ELSE /\ loc' = loc
            /\ pc' = [pc EXCEPT ![t] = "pf_fetch"]
    /\ UNCHANGED <<op, now, mu, stopRemaining, written, stopReturned>>
    /\ UNCHANGED <<statCache, rw, hChildren, staticRoot, rp, installed>>
    /\ UNCHANGED otherVars

\* handlePROPFIND: on a miss the request is delegated to the child, which
\* answers with its listing of now
PfFetch(t) ==
    /\ pc[t] = "pf_fetch"
    /\ loc' = [loc EXCEPT ![t].listing = listingOf(backend), ![t].outcome = "forwarded"]
    /\ pc' = [pc EXCEPT ![t] = "pf_set"]
    /\ UNCHANGED cacheVars
    /\ UNCHANGED <<op, statCache, rw, hChildren, staticRoot, rp, installed>>
    /\ UNCHANGED otherVars

\* handlePROPFIND: h.StatCache.set(path, depth, body) of the child's answer
PfSet(t) ==
    /\ pc[t] = "pf_set"
    /\ mu = 0
    /\ caches' = setEffect(caches, "file", loc[t].depth, loc[t].listing, now)
    /\ written' = [written EXCEPT !["file"][loc[t].depth] =
                        [set |-> TRUE, value |-> loc[t].listing, at |-> now]]
    /\ pc' = [pc EXCEPT ![t] = "ret"]
    /\ UNCHANGED <<op, now, mu, stopRemaining, result, stopReturned>>
    /\ UNCHANGED handlerVars
    /\ UNCHANGED otherVars

\* ServeHTTP after the invalidate: the request is delegated to its child and
\* child.rp.ServeHTTP returns once the child has applied the mutation
ForwardMutation(t) ==
    /\ pc[t] = "mpl_rlock"
    /\ loc[t].method # "GET"
    /\ backend' = backend + 1
    /\ loc' = [loc EXCEPT ![t].outcome = "forwarded"]
    /\ pc' = [pc EXCEPT ![t] = "ret"]
    /\ UNCHANGED cacheVars
    /\ UNCHANGED <<op, statCache, rw, hChildren, staticRoot, rp, installed>>
    /\ UNCHANGED <<rpBuilds, web>>

\* listing requests beside mutating requests to one folder of one child
NextListing ==
    \/ \E t \in Tasks, d \in Depths : Propfind(t, d)
    \/ \E t \in Tasks : PfGet(t)
    \/ \E t \in Tasks : PfFetch(t)
    \/ \E t \in Tasks : PfSet(t)
    \/ \E t \in Tasks :
          /\ statCache
          /\ backend + Cardinality(inServeHTTP) < MaxMutations
          /\ ServeHTTP(t, "PUT", <<"remote1", "domain">>)
    \/ \E t \in Tasks : ShInvalidate(t)
    \/ \E t \in Tasks : ForwardMutation(t)
    \/ \E t \in Tasks : Return(t)

SpecListing == Init /\ [][NextListing]_vars

\* ---- useAuth: loadAuth and the promises it leaves behind

\* loadAuth(): setLoading(true); apiFetch("/auth", "GET") is under way
LoadAuth ==
    /\ web.loads < MaxLoads
    /\ web' = [web EXCEPT !.loading = TRUE, !.authPending = @ + 1, !.loads = @ + 1]
    /\ UNCHANGED <<pc, op, rpBuilds, backend>>
    /\ UNCHANGED cacheVars
    /\ UNCHANGED handlerVars

\* the /auth fetch resolves with d: setData(d); with d.needsSynoAuth the fetch
\* of /webman/login.cgi starts, else setLoading(false)
AuthOk(d) ==
    /\ web.authPending > 0
    /\ web' = [web EXCEPT !.authPending = @ - 1, !.hasData = TRUE, !.data = d,
                          !.synoPending = IF d.needsSynoAuth THEN @ + 1 ELSE @,
                          !.loading = IF d.needsSynoAuth THEN @ ELSE FALSE]
    /\ UNCHANGED <<pc, op, rpBuilds, backend>>
    /\ UNCHANGED cacheVars
    /\ UNCHANGED handlerVars

\* the /auth fetch rejects: the catch runs setLoading(false)
AuthFail ==
    /\ web.authPending > 0
    /\ web' = [web EXCEPT !.authPending = @ - 1, !.loading = FALSE]
    /\ UNCHANGED <<pc, op, rpBuilds, backend>>
    /\ UNCHANGED cacheVars
    /\ UNCHANGED handlerVars

\* the /webman/login.cgi fetch resolves with JSON: setSynoToken,
\* setRanSynoAuth(true), setLoading(false); a change of ranSynoAuth makes its
\* effect due
SynoOk ==
    /\ web.synoPending > 0
    /\ web' = [web EXCEPT !.synoPending = @ - 1, !.synoToken = TRUE,
                          !.ranSynoAuth = TRUE, !.loading = FALSE,
                          !.effectPending = @ \/ ~web.ranSynoAuth]
    /\ UNCHANGED <<pc, op, rpBuilds, backend>>
    /\ UNCHANGED cacheVars
    /\ UNCHANGED handlerVars

\* the /webman/login.cgi fetch rejects, or its body is not JSON: the chain has
\* no catch and is not returned to the outer one, so no handler runs
SynoFail ==
    /\ web.synoPending > 0
    /\ web' = [web EXCEPT !.synoPending = @ - 1]
    /\ UNCHANGED <<pc, op, rpBuilds, backend>>
    /\ UNCHANGED cacheVars
    /\ UNCHANGED handlerVars

\* useEffect(..., [ranSynoAuth]): loadAuth() after syno auth ran
RanSynoAuthEffect ==
    /\ web.effectPending
    /\ web' = [web EXCEPT !.effectPending = FALSE, !.loading = TRUE,
                          !.authPending = @ + 1]
    /\ UNCHANGED <<pc, op, rpBuilds, backend>>
    /\ UNCHANGED cacheVars
    /\ UNCHANGED handlerVars

\* a component calls canEdit(cap, data) on the data useAuth returned
CanEditCall(cap) ==
    /\ web.hasData
    /\ web' = [web EXCEPT !.cap = cap, !.can = canEdit(cap, web.data)]
    /\ UNCHANGED <<pc, op, rpBuilds, backend>>
    /\ UNCHANGED cacheVars
    /\ UNCHANGED handlerVars

NextAuth ==
    \/ LoadAuth
    \/ \E d \in AuthResponses : AuthOk(d)
    \/ AuthFail
    \/ SynoOk
    \/ SynoFail
    \/ RanSynoAuthEffect
    \/ \E cap \in Caps : CanEditCall(cap)

\* the web client's auth hook
SpecAuth == Init /\ [][NextAuth]_vars

NextCache ==
    \/ \E t \in Tasks, n \in Names, d \in Depths : Get(t, n, d)
    \/ \E t \in Tasks, n \in Names, d \in Depths, v \in Values : Set(t, n, d, v)
    \/ \E t \in Tasks : Invalidate(t)
    \/ \E t \in Tasks : CallStop(t)
    \/ \E t \in Tasks : StopLock(t)
    \/ \E t \in Tasks : StopOne(t)
    \/ \E t \in Tasks : StopUnlock(t)
    \/ \E t \in Tasks : Return(t)
    \/ \E d \in Depths : Sweep(d)
    \/ Tick

SpecCache == Init /\ [][NextCache]_vars

\* the calls of SetChildren, GetChild and ServeHTTP, with requests of the
\* given methods
HandlerCalls(methods) ==
    \/ \E t \in Tasks, root \in RootNames, cs \in ChildSeqs : SetChildren(t, root, cs)
    \/ \E t \in Tasks : ScLock(t)
    \/ \E t \in Tasks : ScWriteRest(t)
    \/ \E t \in Tasks : ScClose(t)
    \/ \E t \in Tasks, n \in ChildNames : GetChild(t, n)
    \/ \E t \in Tasks : GcSearch(t)
    \/ \E t \in Tasks : GcIndex(t)
    \/ \E t \in Tasks, m \in methods, p \in Paths : ServeHTTP(t, m, p)
    \/ \E t \in Tasks : ShInvalidate(t)
    \/ \E t \in Tasks : MaxPathLength(t)
    \/ \E t \in Tasks : Handle(t)
    \/ \E t \in Tasks : Return(t)

\* the calls of Close, with the StatCache.stop() it ends in
NextClose ==
    \/ \E t \in Tasks : Close(t)
    \/ \E t \in Tasks : ClRLock(t)
    \/ \E t \in Tasks : ClWriteFirst(t)
    \/ \E t \in Tasks : ClWriteSecond(t)
    \/ \E t \in Tasks : ClClose(t)
    \/ \E t \in Tasks : StopLock(t)
    \/ \E t \in Tasks : StopUnlock(t)

NextSwap == HandlerCalls(Methods)

Next == HandlerCalls({"GET", "PUT", "PROPFIND"}) \/ NextClose

\* the Handler under every interleaving of its calls
Spec == Init /\ [][Next]_vars

\* the Handler while it is not being closed
SpecSwap == Init /\ [][NextSwap]_vars

\* the calls on the dirfs.FS, between SetChildren calls and ticks of the clock
NextDirfs ==
    \/ \E t \in Tasks, root \in RootNames, cs \in ChildSeqs : SetChildren(t, root, cs)
    \/ \E t \in Tasks : ScLock(t)
    \/ \E t \in Tasks : ScWriteRest(t)
    \/ \E t \in Tasks : ScClose(t)
    \/ \E t \in Tasks : Return(t)
    \/ Tick
    \/ \E t \in Tasks, p \in FsPaths : FsStat(t, p)
    \/ \E t \in Tasks, p \in FsPaths : FsList(t, p)
    \/ \E t \in Tasks, p \in FsPaths : FsMkdir(t, p)
    \/ \E t \in Tasks, p \in FsPaths : FsRemoveAll(t, p)
    \/ \E t \in Tasks, p \in FsPaths, q \in FsDests : FsRename(t, p, q)

\* the virtual file system of the Handler's children
SpecDirfs == Init /\ [][NextDirfs]_vars

\* ------------------------------------------------------------- claims: Handler

\* C1: a SetChildren call closes idle connections on exactly the children that
\* were installed before it, never on those it has just installed.
ClosesPreviousChildren ==
    \A t \in Tasks :
        (op[t] = "SetChildren" /\ pc[t] = "ret") => loc[t].closed = loc[t].prev

\* the positions at which a task is writing h.children or h.staticRoot
inWrite(t) == pc[t] \in {"sc_w_rest", "cl_write", "cl_write_len", "cl_write_arr"}

\* C2: while a task is writing h.children or h.staticRoot (in SetChildren or
\* in Close), no other task holds childrenMu, for reading or for writing.
WritersExcludeOthers ==
    \A t \in Tasks :
        inWrite(t) => (rw.writer \in {0, t} /\ rw.readers \ {t} = {})

\* C3: while SetChildren calls interleave with GetChild and ServeHTTP, a task
\* holding the read lock sees h.children whole (its length is that of its
\* array), sorted by name, equal to the slice of the last finished swap, and
\* unchanged since its binary search.
ReadersSeeWholeSortedSet ==
    \A t \in rw.readers :
        /\ hChildren.len = Len(hChildren.arr)
        /\ IsSorted(hChildren.arr)
        /\ hChildren.arr = installed
        /\ pc[t] = "gc_index" =>
            /\ loc[t].idx = BinarySearch(view(hChildren), loc[t].name).i
            /\ loc[t].found = BinarySearch(view(hChildren), loc[t].name).found

\* C3 witness: a reader holds the read lock on a set of two children while
\* another task, inside SetChildren with a different set, waits to swap.
ReadersSeeWholeSortedSetWitness ==
    \E t, u \in Tasks :
        /\ t \in rw.readers /\ pc[t] = "gc_index"
        /\ hChildren.len = 2
        /\ pc[u] = "sc_lock" /\ loc[u].children # hChildren.arr

\* C4: with a StatCache set, a request of a method other than GET and
\* PROPFIND has invalidated the cache before it goes on to be classified,
\* handled or delegated, whatever its path.
InvalidateBeforeDispatch ==
    \A t \in Tasks :
        (/\ op[t] = "ServeHTTP" /\ statCache
         /\ loc[t].method \notin {"GET", "PROPFIND"}
         /\ pc[t] # "sh_inval")
            => loc[t].inval

\* C4 witness: a DELETE has been forwarded to a child after invalidating.
InvalidateBeforeDispatchWitness ==
    \E t \in Tasks :
        /\ op[t] = "ServeHTTP" /\ pc[t] = "ret"
        /\ loc[t].method = "DELETE" /\ loc[t].outcome = "forwarded" /\ loc[t].inval

\* ------------------------------------------------------------- claims: StatCache

\* C5: entries of different depths are independent: a set(name, d1, v) leaves
\* the result of get(n2, d2) as it was for every other depth d2 (and so absent
\* where there was no entry).
DepthsIndependent ==
    [][\A t \in Tasks, n \in Names, d1 \in Depths, v \in Values :
          Set(t, n, d1, v) =>
              \A n2 \in Names, d2 \in Depths \ {d1} :
                  getValue(caches', n2, d2, now') = getValue(caches, n2, d2, now)]_vars

\* C5 witness: an entry is set at depth 0 and readable there, while depth 1 of
\* the same name has no entry and reads absent.
DepthsIndependentWitness ==
    /\ written["file"][0].set
    /\ getValue(caches, "file", 0, now) # Nil
    /\ ~written["file"][1].set
    /\ getValue(caches, "file", 1, now) = Nil

\* C6: a get of (name, depth) returns exactly the bytes of the most recent set
\* of that pair, when no invalidate and no TTL expiry came in between.
GetReturnsLastSet ==
    [][\A t \in Tasks, n \in Names, d \in Depths :
          (Get(t, n, d) /\ written[n][d].set /\ now < written[n][d].at + TTL)
              => result' = written[n][d].value]_vars

\* C6 witness: a get has returned "v2" for a pair whose latest set stored "v2"
\* over an entry of another depth holding "v1".
GetReturnsLastSetWitness ==
    /\ result = "v2"
    /\ \E d \in Depths :
        /\ written["file"][d].set /\ written["file"][d].value = "v2"
        /\ \E d2 \in Depths \ {d} : written["file"][d2].value = "v1"

\* C7: an entry set at time t and not set again is absent at every time after
\* t + TTL (the instant t + TTL itself is left out here).
ExpiresAfterTTL ==
    \A n \in Names, d \in Depths :
        (written[n][d].set /\ now > written[n][d].at + TTL)
            => getValue(caches, n, d, now) = Nil

\* C8: after invalidate() every pair not set again reads absent, at every
\* depth, and a pair set after an invalidate reads the newly set value.
InvalidateClears ==
    /\ \A n \in Names, d \in Depths :
            ~written[n][d].set => getValue(caches, n, d, now) = Nil
    /\ \A n \in Names, d \in Depths :
            (written[n][d].set /\ now < written[n][d].at + TTL)
                => getValue(caches, n, d, now) = written[n][d].value

\* C8 witness: depth 0 holds a sub-cache, so was set, and has not been set
\* since the last invalidate: it reads absent, while depth 1, set since, reads
\* its value.
InvalidateClearsWitness ==
    /\ caches[0].exists /\ ~written["file"][0].set
    /\ getValue(caches, "file", 0, now) = Nil
    /\ written["file"][1].set
    /\ getValue(caches, "file", 1, now) = written["file"][1].value

\* C9: every stop() call completes: no call is left blocked (holding c.mu).
StopAlwaysReturns ==
    \A t \in Tasks : pc[t] # "stop_blocked"

\* C10: once a stop() has returned, no sub-cache's eviction loop is running,
\* whatever calls follow.
StopHaltsSweeps ==
    stopReturned => \A d \in Depths : caches[d].sweeper # "running"

\* ------------------------------------------------------------- claims: Handler, continued

\* C11: a Close call clears the children (once its swap is done, and until a
\* SetChildren installs a new set, no name is found), and when it returns it
\* has not panicked, it has closed idle connections on exactly the children
\* held when it started, and StatCache.stop() has run if there is a StatCache.
CloseClearsClosesStops ==
    \A t \in Tasks :
        op[t] = "Close" =>
            /\ (pc[t] = "cl_close" /\ installed = <<>> /\ ~torn(hChildren))
                  => \A n \in ChildNames : ~BinarySearch(view(hChildren), n).found
            /\ pc[t] = "ret" =>
                  /\ loc[t].outcome # "panic"
                  /\ loc[t].closed = loc[t].prev
                  /\ statCache => stopReturned

\* C12: a request other than PROPFIND is classified by the virtual depth, 1
\* without a static root and 2 with one: with at least that many path
\* components it goes to delegate with the component at the virtual depth as
\* the child's name, and is forwarded to that child's proxy or to none; with
\* fewer it goes to handle (the dirfs.FS) and is never forwarded.
RoutingByDepth ==
    [][\A t \in Tasks :
          /\ MaxPathLength(t) =>
                LET vd == IF staticRoot = "" THEN 1 ELSE 2
                    path == loc[t].path
                IN IF Len(path) >= vd
                   THEN pc'[t] = "gc_rlock" /\ loc'[t].name = path[vd]
                   ELSE pc'[t] = "h_rlock"
          /\ (GcIndex(t) /\ op[t] = "ServeHTTP") =>
                loc'[t].proxy \in {Nil, loc[t].path[loc[t].mpl]}
          /\ Handle(t) =>
                loc'[t].proxy = Nil /\ loc'[t].outcome # "forwarded"]_vars

\* C12 witness: with the static root "domain" a request for domain/remote1 has
\* been forwarded to remote1, while a request for the single component
\* "remote1" has been handled locally.
RoutingByDepthWitness ==
    \E t, u \in Tasks :
        /\ op[t] = "ServeHTTP" /\ loc[t].mpl = 2
        /\ loc[t].path = <<"domain", "remote1">> /\ loc[t].proxy = "remote1"
        /\ op[u] = "ServeHTTP" /\ loc[u].mpl = 2
        /\ loc[u].path = <<"remote1">> /\ loc[u].outcome = "handled"

\* C13: a delegated request whose child name is not among the children that
\* GetChild searches is not found by the search, is answered 404, is forwarded
\* to no child's proxy, and keeps the URL it came with.
UnknownChildNotFound ==
    [][\A t \in Tasks :
          /\ (GcSearch(t) /\ ~torn(hChildren)
                /\ loc[t].name \notin Range(view(hChildren)))
                => ~loc'[t].found
          /\ (GcIndex(t) /\ op[t] = "ServeHTTP" /\ ~loc[t].found)
                => /\ loc'[t].outcome = "notfound"
                   /\ loc'[t].proxy = Nil
                   /\ loc'[t].url = requestURL(loc[t].path)]_vars

\* C13 witness: with remote2 the only child, a request for remote1/remote1 has
\* been answered 404.
UnknownChildNotFoundWitness ==
    \E t \in Tasks :
        /\ op[t] = "ServeHTTP" /\ pc[t] = "ret" /\ loc[t].outcome = "notfound"
        /\ loc[t].path = <<"remote1", "remote1">> /\ loc[t].name = "remote1"
        /\ installed = <<"remote2">>

\* C14: a request forwarded to a child goes to the proxy of the child its path
\* names at the virtual depth, with the URL of that child's base address
\* followed by exactly the components after the child's name, in order.
ForwardsRewrittenPath ==
    [][\A t \in Tasks :
          (GcIndex(t) /\ op[t] = "ServeHTTP" /\ loc'[t].outcome = "forwarded")
              => LET path == loc[t].path
                     name == path[loc[t].mpl]
                 IN /\ loc'[t].proxy = name
                    /\ name \in ChildNames
                    /\ loc'[t].url.host = baseURL(name).host
                    /\ loc'[t].url.path =
                          baseURL(name).path \o SubSeq(path, loc[t].mpl + 1, Len(path))]_vars

\* C14 witness: without a static root, a request for remote1/domain has been
\* forwarded to remote1 with the path share/domain.
ForwardsRewrittenPathWitness ==
    \E t \in Tasks :
        /\ op[t] = "ServeHTTP" /\ pc[t] = "ret" /\ loc[t].outcome = "forwarded"
        /\ loc[t].path = <<"remote1", "domain">> /\ loc[t].mpl = 1
        /\ loc[t].url = [host |-> "remote1", path |-> <<"share", "domain">>]

\* C15: GetChild(name) returns the child of that name of the most recently
\* installed set, and nil when that set has none.
GetChildReflectsInstalled ==
    [][\A t \in Tasks :
          (GcIndex(t) /\ op[t] = "GetChild")
              => /\ loc'[t].outcome # "panic"
                 /\ loc'[t].child =
                       IF loc[t].name \in Range(installed) THEN loc[t].name ELSE Nil]_vars

\* C15 witness: a SetChildren call with remote2 has come and gone (its proxy
\* is built and no call is under way), the set of remote1 alone is installed,
\* and GetChild("remote2") has returned nil.
GetChildReflectsInstalledWitness ==
    \E t \in Tasks :
        /\ op[t] = "GetChild" /\ pc[t] = "ret"
        /\ loc[t].name = "remote2" /\ loc[t].child = Nil
        /\ installed = <<"remote1">>
        /\ "remote2" \in rp
        /\ \A u \in Tasks : op[u] # "SetChildren"

\* ------------------------------------------------------------- claims: dirfs.FS

\* the paths of the virtual nodes of a Handler with the given static root and
\* children: the root, the static root, staticRoot/child
isVirtualNode(root, backends, p) ==
    \/ p = <<>>
    \/ root # "" /\ p = <<root>>
    \/ root # "" /\ Len(p) = 2 /\ p[1] = root /\ p[2] \in backends
    \/ root = "" /\ Len(p) = 1 /\ p[1] \in backends

\* C16: Stat of the root returns the node named "", Stat of the static root
\* its node, Stat of staticRoot/child the child's node when the child is one of
\* the Handler's children; every node has size 0, is a directory and carries
\* the clock's current time; Stat of any other path fails with NotExist.
StatVirtualNodes ==
    [][\A t \in Tasks, p \in FsPaths :
          FsStat(t, p) =>
              IF isVirtualNode(staticRoot, Range(view(hChildren)), p)
              THEN /\ loc'[t].err = ""
                   /\ loc'[t].info = [name |-> IF p = <<>> THEN "" ELSE p[Len(p)],
                                      size |-> 0, isDir |-> TRUE, modTime |-> now]
              ELSE loc'[t].err = "NotExist"]_vars

\* C16 witness: with the static root "domain" and remote1 a child, at time 1,
\* Stat of domain/remote1 has returned the node of remote1 with time 1, while
\* Stat of remote1 alone has failed with NotExist.
StatVirtualNodesWitness ==
    \E t, u \in Tasks :
        /\ staticRoot = "domain" /\ installed = <<"remote1">>
        /\ op[t] = "Stat" /\ loc[t].path = <<"domain", "remote1">>
        /\ loc[t].info = dirInfo("remote1", 1)
        /\ op[u] = "Stat" /\ loc[u].path = <<"remote1">> /\ loc[u].err = "NotExist"

\* C17: with a static root, listing the root returns exactly the static
\* root's node, and listing the static root returns one node per child of the
\* Handler, all of them and only them, in ascending order of name; without a
\* static root, listing the root returns the nodes of the children.
ListVirtualNodes ==
    [][\A t \in Tasks, p \in FsPaths :
          FsList(t, p) =>
              LET es == loc'[t].entries
              IN IF p = <<>> /\ staticRoot # ""
                 THEN es = <<[name |-> staticRoot, size |-> 0, isDir |-> TRUE,
                              modTime |-> now]>>
                 ELSE /\ Len(es) = Cardinality(Range(view(hChildren)))
                      /\ {es[i].name : i \in 1 .. Len(es)} = Range(view(hChildren))
                      /\ \A i \in 1 .. Len(es) - 1 : Compare(es[i].name, es[i + 1].name) < 0
                      /\ \A i \in 1 .. Len(es) :
                            es[i].size = 0 /\ es[i].isDir /\ es[i].modTime = now]_vars

\* C17 witness: after SetChildren("domain", remote2, remote1), listing the
\* root has returned the node of domain alone and listing domain has returned
\* the nodes of remote1 and remote2, in that order.
ListVirtualNodesWitness ==
    \E t, u \in Tasks :
        /\ staticRoot = "domain" /\ installed = <<"remote1", "remote2">>
        /\ op[t] = "List" /\ loc[t].path = <<>>
        /\ Len(loc[t].entries) = 1 /\ loc[t].entries[1].name = "domain"
        /\ op[u] = "List" /\ loc[u].path = <<"domain">>
        /\ Len(loc[u].entries) = 2
        /\ loc[u].entries[1].name = "remote1" /\ loc[u].entries[2].name = "remote2"

\* C18: Mkdir succeeds on the path of a virtual node (the root, the static
\* root, staticRoot/child for a child of the Handler) and fails with
\* Permission on any other path; either way the children and the static root,
\* and so every later Stat and listing, are what they were.
MkdirNoOp ==
    [][\A t \in Tasks, p \in FsPaths :
          FsMkdir(t, p) =>
              /\ loc'[t].err = IF isVirtualNode(staticRoot, Range(view(hChildren)), p)
                               THEN "" ELSE "Permission"
              /\ UNCHANGED <<hChildren, staticRoot, installed>>]_vars

\* C18 witness: with the static root "domain" and remote2 the only child,
\* Mkdir of domain/remote1 has failed with Permission and Mkdir of domain has
\* succeeded.
MkdirNoOpWitness ==
    \E t, u \in Tasks :
        /\ staticRoot = "domain" /\ installed = <<"remote2">>
        /\ op[t] = "Mkdir" /\ loc[t].path = <<"domain", "remote1">>
        /\ loc[t].err = "Permission"
        /\ op[u] = "Mkdir" /\ loc[u].path = <<"domain">> /\ loc[u].err = ""

\* C19: RemoveAll and Rename of the path of a virtual node fail with
\* Permission, whatever the destination of the rename, and leave the children
\* and the static root, and so every later Stat, what they were.
RemoveRenameDenied ==
    [][\A t \in Tasks, p \in FsPaths :
          /\ (FsRemoveAll(t, p) /\ isVirtualNode(staticRoot, Range(view(hChildren)), p)) =>
                /\ loc'[t].err = "Permission"
                /\ UNCHANGED <<hChildren, staticRoot, installed>>
          /\ \A q \in FsDests :
                (FsRename(t, p, q) /\ isVirtualNode(staticRoot, Range(view(hChildren)), p)) =>
                    /\ loc'[t].err = "Permission"
                    /\ UNCHANGED <<hChildren, staticRoot, installed>>]_vars

\* C19 witness: with the static root "domain" and remote1 a child, RemoveAll of
\* domain/remote1 and Rename of the root to domain/remote2 have both failed
\* with Permission.
RemoveRenameDeniedWitness ==
    \E t, u \in Tasks :
        /\ staticRoot = "domain" /\ "remote1" \in Range(installed)
        /\ op[t] = "RemoveAll" /\ loc[t].path = <<"domain", "remote1">>
        /\ loc[t].err = "Permission"
        /\ op[u] = "Rename" /\ loc[u].path = <<>> /\ loc[u].dest = <<"domain", "remote2">>
        /\ loc[u].err = "Permission"

\* ------------------------------------------------------------- claims: StatCache, continued

\* C20: invalidate() leaves the depths that have a sub-cache, and whether each
\* sub-cache's eviction loop runs, as they were; and a set at a depth that has
\* a sub-cache starts no eviction loop.
InvalidateKeepsCaches ==
    [][\A t \in Tasks :
          /\ Invalidate(t) =>
                \A d \in Depths :
                    /\ caches'[d].exists = caches[d].exists
                    /\ caches'[d].sweeper = caches[d].sweeper
          /\ \A n \in Names, d \in Depths, v \in Values :
                (Set(t, n, d, v) /\ caches[d].exists) =>
                    /\ caches'[d].sweeper = caches[d].sweeper
                    /\ \A d2 \in Depths \ {d} : caches'[d2] = caches[d2]]_vars

\* C20 witness: both depths have a sub-cache, that of depth 0 stopped and that
\* of depth 1 running; an invalidate has emptied both, and depth 1 has been set
\* again since, its eviction loop still the running one.
InvalidateKeepsCachesWitness ==
    /\ caches[0].exists /\ caches[0].sweeper = "exited"
    /\ ~written["file"][0].set /\ ~caches[0].items["file"].present
    /\ caches[1].exists /\ caches[1].sweeper = "running"
    /\ written["file"][1].set /\ caches[1].items["file"].present

\* ------------------------------------------------------------- claims: Handler, proxies

\* C21: every child of the installed set has its reverse proxy built, so that
\* delegate forwards through it, and no child has had more than one proxy
\* built, however often it was passed to SetChildren.
ProxyBuiltOnce ==
    /\ \A c \in Range(hChildren.arr) :
          c \in rp /\ rpBuilds[c] = 1 /\ delegateOutcome(c, rp) = "forwarded"
    /\ \A c \in ChildNames : rpBuilds[c] <= 1

\* C21 witness: remote1 is installed, and a second SetChildren call that was
\* passed remote1 again is about to install it along with remote2.
ProxyBuiltOnceWitness ==
    \E t \in Tasks :
        /\ installed = <<"remote1">>
        /\ op[t] = "SetChildren" /\ pc[t] = "sc_lock"
        /\ loc[t].children = <<"remote1", "remote2">>
        /\ rpBuilds["remote1"] = 1

\* ------------------------------------------------------------- claims: web client

\* C22: canEdit(cap, auth) is true exactly when auth.authorized is true, a
\* viewerIdentity is present, and its capabilities have "*" or cap set.
CanEditIffAuthorized ==
    [][\A cap \in Caps :
          CanEditCall(cap) =>
              web'.can = (/\ web.data.authorized
                          /\ web.data.viewerIdentity.present
                          /\ \/ web.data.viewerIdentity.capabilities["*"]
                             \/ web.data.viewerIdentity.capabilities[cap])]_vars

\* C22 witness: canEdit("ssh", data) has returned false for a response that
\* is not authorized although its viewer has the "ssh" capability.
CanEditIffAuthorizedWitness ==
    /\ web.cap = "ssh" /\ ~web.can
    /\ ~web.data.authorized
    /\ web.data.viewerIdentity.present
    /\ web.data.viewerIdentity.capabilities["ssh"]

\* C26: once loadAuth was called and every fetch it started has settled, with
\* no effect left to run, loading is false.
LoadingSettles ==
    (/\ web.loads > 0
     /\ web.authPending = 0 /\ web.synoPending = 0
     /\ ~web.effectPending)
        => ~web.loading

\* ------------------------------------------------------------- claims: Handler, routing

\* C23: the virtual depth a request was classified with is the depth of the
\* static root that is installed with the children its lookup searches.
RoutesOneConfiguration ==
    [][\A t \in Tasks :
          (GcSearch(t) /\ op[t] = "ServeHTTP")
              => loc[t].mpl = IF staticRoot = "" THEN 1 ELSE 2]_vars

\* C24: a request classified under a static root (at depth 2) is forwarded to
\* a child only if the first component of its path is a static-root name.
ForwardsOnlyBelowStaticRoot ==
    \A t \in Tasks :
        (op[t] = "ServeHTTP" /\ loc[t].mpl = 2 /\ loc[t].outcome = "forwarded")
            => loc[t].path[1] \in RootNames \ {""}

\* C25: a PROPFIND answered from the StatCache returns the listing of the
\* folder as the completed mutations have left it.
NoStaleListing ==
    [][\A t \in Tasks :
          (PfGet(t) /\ getValue(caches, "file", loc[t].depth, now) # Nil)
              => loc'[t].listing = listingOf(backend)]_vars

====
